---- MODULE Spec2Model ----
(***************************************************************************)
(* Closed-loop discovery workflow of researcher_hub/autora_workflow.py:    *)
(* a StandardState container threaded through bootstrap, execution, fit    *)
(* and selection stages for num_cycles iterations.                         *)
(***************************************************************************)
EXTENDS Integers, Sequences, FiniteSets, TLC

(* ------------------------- study parameters --------------------------- *)
num_cycles == 2
num_trials == 10
num_conditions_per_cycle == 2

\* Largest total number of trial events the execution engine returns in
\* one cycle, over all result blobs of that cycle.
MaxEvents == 1

\* Longest trial list handed to the result parser on its own.
MaxTrials == 2

(* ---------------------- variables / design space ---------------------- *)
\* np.linspace(1, 100, 100) scaled down to its first three values: the
\* design space then has six rows, more than one Condition Pool holds, and
\* two rows of a pool can have different pairs of values.
allowed_values == <<1, 2, 3>>

variables ==
  [independent_variables |-> <<"dots_left", "dots_right">>,
   dependent_variables   |-> <<"accuracy">>]

\* Cross product of the two allowed-value sequences, dots_left major.
grid_pool ==
  LET n == Len(allowed_values)
  IN  [k \in 1..(n * n) |->
         [dots_left  |-> allowed_values[((k - 1) \div n) + 1],
          dots_right |-> allowed_values[((k - 1) % n) + 1]]]

\* Variant: the filter keeps the equal-dot rows.
NotEqualDots_Equal(row) == row.dots_left = row.dots_right

NotEqualDots(row) == row.dots_left # row.dots_right

allowed_conditions == SelectSeq(grid_pool, NotEqualDots)

(* ----------------------------- data frames ---------------------------- *)
\* A possibly unset table: None, or a sequence of rows.
NoneDF == [isNone |-> TRUE, rows |-> <<>>]
DF(rows) == [isNone |-> FALSE, rows |-> rows]
IsEmptyDF(df) == df.isNone \/ Len(df.rows) = 0

Range(s) == {s[i] : i \in DOMAIN s}

\* Sequences of exactly n pairwise distinct elements of S.
DistinctSeqs(S, n) ==
  {s \in [1..n -> S] : \A i, j \in 1..n : i # j => s[i] # s[j]}

Min(a, b) == IF a <= b THEN a ELSE b

(* ------------------------- state container ---------------------------- *)
\* StandardState(variables=variables)
NewState ==
  [variables       |-> variables,
   conditions      |-> NoneDF,
   experiment_data |-> NoneDF,
   models          |-> <<>>]

EmptyDelta == <<>>

ExtendFields == {"experiment_data", "models"}

\* Extension of one field: tables are concatenated (an unset table is
\* initialised), model lists are concatenated.
Extend(f, old, new) ==
  IF f = "models" THEN old \o new
  ELSE IF old.isNone THEN new
  ELSE DF(old.rows \o new.rows)

\* state + delta: named fields are replaced or extended by their policy,
\* unnamed fields are kept.
Merge(st, delta) ==
  [f \in DOMAIN st |->
     IF f \in DOMAIN delta
     THEN IF f \in ExtendFields THEN Extend(f, st[f], delta[f]) ELSE delta[f]
     ELSE st[f]]

(* --------------------------- trial sequence --------------------------- *)
\* Full crossing of the factors 'dots left' and 'dots right', each with the
\* levels [num_dots_1, num_dots_2]: the level pairs the synthesized
\* timeline is made of.
\* Variant: the trial count is used as the second level of both factors.
trial_sequence_CountAsLevel(num_dots_1, num_dots_2, min_trials) ==
  {<<l, r>> : l \in {num_dots_1, min_trials}, r \in {num_dots_1, min_trials}}

trial_sequence(num_dots_1, num_dots_2, min_trials) ==
  {<<l, r>> : l \in {num_dots_1, num_dots_2}, r \in {num_dots_1, num_dots_2}}

\* Events the compiled experiment can log for a timeline: instruction and
\* fixation screens, and one random-dot ('rok') event per timeline trial,
\* answered with 'y' or 'n' or left unanswered.
stimulus_sequence(timeline) ==
  {[trial_type |-> "html-keyboard-response", rt |-> "rt",
    number_of_oobs |-> <<0, 0>>, key_press |-> " "]}
  \cup {[trial_type |-> "rok", rt |-> "rt", number_of_oobs |-> t, key_press |-> k] :
          t \in timeline, k \in {"y", "n"}}
  \cup {[trial_type |-> "rok", rt |-> r, number_of_oobs |-> t, key_press |-> "None"] :
          t \in timeline, r \in {"None", "absent"}}

(* ----------------------------- preprocessing -------------------------- *)
\* Variant: trials without a reaction time are kept.
KeptTrial_AnyRt(trial) == trial.trial_type = "rok"

\* A trial is kept when it shows the dots and has a reaction time.
KeptTrial(trial) ==
  /\ trial.trial_type = "rok"
  /\ trial.rt # "absent"
  /\ trial.rt # "None"

\* Variant: the two keys are swapped.
Accuracy_Swapped(dots_left, dots_right, choice) ==
  IF \/ (dots_left = dots_right /\ choice = "n")
     \/ (dots_left # dots_right /\ choice = "y")
  THEN 1 ELSE 0

Accuracy(dots_left, dots_right, choice) ==
  IF \/ (dots_left = dots_right /\ choice = "y")
     \/ (dots_left # dots_right /\ choice = "n")
  THEN 1 ELSE 0

TrialRow(trial) ==
  [dots_left  |-> trial.number_of_oobs[1],
   dots_right |-> trial.number_of_oobs[2],
   accuracy   |-> Accuracy(trial.number_of_oobs[1], trial.number_of_oobs[2],
                           trial.key_press)]

trial_list_to_experiment_data(trials) ==
  LET kept == SelectSeq(trials, KeptTrial)
  IN  [i \in 1..Len(kept) |-> TrialRow(kept[i])]

\* pd.concat of the parsed tables of all result blobs, in order.
RECURSIVE Preprocess(_)
Preprocess(data_raw) ==
  IF Len(data_raw) = 0 THEN <<>>
  ELSE trial_list_to_experiment_data(Head(data_raw)) \o Preprocess(Tail(data_raw))

(* --------------------------- collaborators ---------------------------- *)
\* random_sample(allowed_conditions, num_samples): num_samples distinct rows.
random_sample(allowed, k) ==
  DistinctSeqs(Range(allowed), Min(k, Len(allowed)))

\* Observed independent-variable combinations, first occurrences in order
\* (experiment_data[ivs].drop_duplicates()).
RECURSIVE DropDuplicates(_)
DropDuplicates(rows) ==
  IF Len(rows) = 0 THEN <<>>
  ELSE LET init == DropDuplicates(SubSeq(rows, 1, Len(rows) - 1))
           last == rows[Len(rows)]
       IN  IF last \in Range(init) THEN init ELSE Append(init, last)

IvRow(row) == [dots_left |-> row.dots_left, dots_right |-> row.dots_right]

\* Variant: the observed combinations are not de-duplicated.
Existing_NoDedup(experiment_data) ==
  IF IsEmptyDF(experiment_data) THEN <<>>
  ELSE [i \in 1..Len(experiment_data.rows) |-> IvRow(experiment_data.rows[i])]

Existing(experiment_data) ==
  IF IsEmptyDF(experiment_data) THEN <<>>
  ELSE DropDuplicates([i \in 1..Len(experiment_data.rows) |->
                         IvRow(experiment_data.rows[i])])

\* The per-cycle condition sampler: a row-subset of the design space of at
\* most k rows.
pick_conditions(allowed, existing, models, k) ==
  UNION {DistinctSeqs(Range(allowed), n) : n \in 0..Min(k, Len(allowed))}

RECURSIVE SumSeq(_)
SumSeq(s) == IF Len(s) = 0 THEN 0 ELSE Head(s) + SumSeq(Tail(s))

\* Blob i of a result list whose blobs have the sizes sz and whose events,
\* laid end to end, are flat.
Split(flat, sz) ==
  [i \in 1..Len(sz) |->
     SubSeq(flat, SumSeq(SubSeq(sz, 1, i - 1)) + 1, SumSeq(SubSeq(sz, 1, i)))]

\* What the execution engine can return for the conditions sent: at most
\* one blob per condition, each a list of logged trial events.
experiment_runner(conditions) ==
  LET events == UNION {stimulus_sequence(
                         trial_sequence(c.dots_left, c.dots_right, num_trials)) :
                       c \in Range(conditions)}
      sizes  == {sz \in UNION {[1..m -> 0..MaxEvents] : m \in 0..Len(conditions)} :
                   SumSeq(sz) <= MaxEvents}
  IN  UNION {{Split(flat, sz) : flat \in [1..SumSeq(sz) -> events]} : sz \in sizes}

(* ------------------------------- stages ------------------------------- *)
\* The module-level theorist objects, in the order the fit stage calls them.
\* Each fit returns the object it was called on.
FitOrder == <<"nuts_theorist", "bms_theorist", "lr_theorist">>

Family(handle) ==
  CASE handle = "nuts_theorist" -> "Nuts"
    [] handle = "bms_theorist"  -> "BMS"
    [] handle = "lr_theorist"   -> "LR"

\* The theorist objects after the first n fits of a fit stage: fit()
\* overwrites the fitted content of the object it is called on.
FitTheorists(th, fitted, n) ==
  [t \in DOMAIN th |->
     IF \E i \in 1..n : FitOrder[i] = t THEN fitted ELSE th[t]]

\* Variant: the fit stage also looks at the Condition Pool and skips the
\* fit while no condition is pending.
theorist_on_state_ReadsPool(st) ==
  IF IsEmptyDF(st.experiment_data) \/ IsEmptyDF(st.conditions)
  THEN Merge(st, EmptyDelta)
  ELSE Merge(st, [models |-> <<FitOrder[1], FitOrder[2], FitOrder[3]>>])

\* Variant: the three handles listed in the reverse order.
theorist_on_state_Reversed(st) ==
  IF IsEmptyDF(st.experiment_data)
  THEN Merge(st, EmptyDelta)
  ELSE Merge(st, [models |-> <<FitOrder[3], FitOrder[2], FitOrder[1]>>])

\* Variant: no early return on an empty table.
theorist_on_state_NoGuard(st) ==
  Merge(st, [models |-> <<FitOrder[1], FitOrder[2], FitOrder[3]>>])

theorist_on_state(st) ==
  IF IsEmptyDF(st.experiment_data)
  THEN Merge(st, EmptyDelta)
  ELSE Merge(st, [models |-> <<FitOrder[1], FitOrder[2], FitOrder[3]>>])

initialize_state(st, sample) ==
  Merge(st, [conditions |-> DF(sample)])

\* Variant: the chosen rows are added to the pool instead of replacing it.
experimentalist_on_state_Accumulate(st, chosen) ==
  [st EXCEPT !.conditions = DF(st.conditions.rows \o chosen)]

experimentalist_on_state(st, chosen) ==
  Merge(st, [conditions |-> DF(chosen)])

\* Variant: the executed conditions are removed from the pool.
runner_on_state_ClearsPool(st, data_raw) ==
  [Merge(st, [experiment_data |-> DF(Preprocess(data_raw))])
     EXCEPT !.conditions = DF(<<>>)]

\* Variant: the new observations overwrite the table.
runner_on_state_Overwrite(st, data_raw) ==
  [st EXCEPT !.experiment_data = DF(Preprocess(data_raw))]

runner_on_state(st, data_raw) ==
  Merge(st, [experiment_data |-> DF(Preprocess(data_raw))])

\* Variant: the first three entries of the history, state.models[2], [1], [0].
ModelsToCompareIdx_FromFront(models) ==
  <<3, 2, 1>>

\* Positions (1-based) of state.models[-1], [-2], [-3].
ModelsToCompareIdx(models) ==
  <<Len(models), Len(models) - 1, Len(models) - 2>>

\* Variant: the fit stage is called before the execution stage.
StageAfter_FitFirst(p) ==
  CASE p = "Start"        -> "bootstrap"
    [] p = "Bootstrapped" -> "fit"
    [] p = "Fitted"       -> "execute"
    [] p = "Executed"     -> "select"
    [] p = "Selected"     -> "fit"
    [] OTHER              -> "none"

\* The stage the workflow runs after the one that completed last.
StageAfter(p) ==
  CASE p = "Start"        -> "bootstrap"
    [] p = "Bootstrapped" -> "execute"
    [] p = "Executed"     -> "fit"
    [] p = "Fitted"       -> "select"
    [] p = "Selected"     -> "execute"
    [] OTHER              -> "none"

(* ------------------------------ the loop ------------------------------ *)
VARIABLES
  state,             \* the module-level StandardState the loop rebinds
  theorists,         \* fitted content of nuts_theorist, bms_theorist, lr_theorist
  models_to_compare, \* the list built at the top of each selection
  pc,                \* the stage that completed last, or Halted / Terminal
  cycle,             \* loop iterations started
  failure,           \* what stopped the loop, "none" while it runs
  trace,             \* stages invoked so far, in order
  held,              \* the container handed to the stage invoked last
  heldTheorists,     \* the theorist objects when that stage was invoked
  sampled,           \* rows the condition sampler returned last
  parsed,            \* number of rows parsed from each execution so far
  snapshots,         \* fitted content of each models entry when appended
  appendedIn,        \* the cycle each models entry was appended in
  mtcIdx,            \* positions of models the list models_to_compare was read from
  existing,          \* the observed combinations handed to the sampler last
  trials,            \* a trial list handed to the result parser on its own
  rows               \* the table the parser returned for it

vars == <<state, theorists, models_to_compare, pc, cycle, failure, trace, held,
          heldTheorists, sampled, parsed, snapshots, appendedIn, mtcIdx,
          existing, trials, rows>>

Unfitted == [X |-> <<>>, fit |-> 0]

Init ==
  /\ state = NewState
  /\ theorists = [t \in Range(FitOrder) |-> Unfitted]
  /\ models_to_compare = <<>>
  /\ pc = "Start"
  /\ cycle = 0
  /\ failure = "none"
  /\ trace = <<>>
  /\ held = NewState
  /\ heldTheorists = [t \in Range(FitOrder) |-> Unfitted]
  /\ sampled = <<>>
  /\ parsed = <<>>
  /\ snapshots = <<>>
  /\ appendedIn = <<>>
  /\ mtcIdx = <<>>
  /\ existing = <<>>
  /\ trials = <<>>
  /\ rows = <<>>

\* state = initialize_state(state, allowed_conditions, num_samples)
Bootstrap ==
  /\ StageAfter(pc) = "bootstrap"
  /\ \E s \in random_sample(allowed_conditions, num_conditions_per_cycle) :
       /\ state' = initialize_state(state, s)
       /\ sampled' = s
  /\ held' = state
  /\ heldTheorists' = theorists
  /\ trace' = Append(trace, "bootstrap")
  /\ pc' = "Bootstrapped"
  /\ UNCHANGED <<existing, trials, rows>>
  /\ UNCHANGED <<theorists, models_to_compare, cycle, failure, parsed,
                 snapshots, appendedIn, mtcIdx>>

\* state = runner_on_state(state)
Runner ==
  /\ StageAfter(pc) = "execute"
  /\ cycle < num_cycles
  /\ \E data_raw \in experiment_runner(state.conditions.rows) :
       /\ state' = runner_on_state(state, data_raw)
       /\ parsed' = Append(parsed, Len(Preprocess(data_raw)))
  /\ held' = state
  /\ heldTheorists' = theorists
  /\ trace' = Append(trace, "execute")
  /\ cycle' = cycle + 1
  /\ pc' = "Executed"
  /\ UNCHANGED <<existing, trials, rows>>
  /\ UNCHANGED <<theorists, models_to_compare, failure, sampled,
                 snapshots, appendedIn, mtcIdx>>

\* The execution engine or the parser raises: state is not rebound.
RunnerFails ==
  /\ StageAfter(pc) = "execute"
  /\ cycle < num_cycles
  /\ held' = state
  /\ heldTheorists' = theorists
  /\ trace' = Append(trace, "execute")
  /\ cycle' = cycle + 1
  /\ pc' = "Halted"
  /\ failure' = "execution"
  /\ UNCHANGED <<existing, trials, rows>>
  /\ UNCHANGED <<state, theorists, models_to_compare, sampled, parsed,
                 snapshots, appendedIn, mtcIdx>>

\* state = theorist_on_state(state)
Fit ==
  /\ StageAfter(pc) = "fit"
  /\ state' = theorist_on_state(state)
  /\ theorists' = IF IsEmptyDF(state.experiment_data) THEN theorists
                  ELSE FitTheorists(theorists,
                                    [X |-> state.experiment_data.rows, fit |-> cycle],
                                    Len(FitOrder))
  /\ LET new == SubSeq(state'.models, Len(state.models) + 1, Len(state'.models))
     IN  /\ snapshots' = snapshots \o [i \in 1..Len(new) |-> theorists'[new[i]]]
         /\ appendedIn' = appendedIn \o [i \in 1..Len(new) |-> cycle]
  /\ held' = state
  /\ heldTheorists' = theorists
  /\ trace' = Append(trace, "fit")
  /\ pc' = "Fitted"
  /\ UNCHANGED <<existing, trials, rows>>
  /\ UNCHANGED <<models_to_compare, cycle, failure, sampled, parsed, mtcIdx>>

\* The k-th fit of the stage raises after the fits before it returned.
FitFails ==
  /\ StageAfter(pc) = "fit"
  /\ ~IsEmptyDF(state.experiment_data)
  /\ \E k \in 1..Len(FitOrder) :
       theorists' = FitTheorists(theorists,
                                 [X |-> state.experiment_data.rows, fit |-> cycle],
                                 k - 1)
  /\ held' = state
  /\ heldTheorists' = theorists
  /\ trace' = Append(trace, "fit")
  /\ pc' = "Halted"
  /\ failure' = "fit"
  /\ UNCHANGED <<existing, trials, rows>>
  /\ UNCHANGED <<state, models_to_compare, cycle, sampled, parsed,
                 snapshots, appendedIn, mtcIdx>>

\* models_to_compare = [state.models[-1], state.models[-2], state.models[-3]]
\* state = experimentalist_on_state(state, ...)
Select ==
  /\ StageAfter(pc) = "select"
  /\ Len(state.models) >= 3
  /\ mtcIdx' = ModelsToCompareIdx(state.models)
  /\ models_to_compare' = [i \in 1..3 |-> state.models[mtcIdx'[i]]]
  /\ existing' = Existing(state.experiment_data)
  /\ \E chosen \in pick_conditions(allowed_conditions, existing',
                                   models_to_compare', num_conditions_per_cycle) :
       /\ state' = experimentalist_on_state(state, chosen)
       /\ sampled' = chosen
  /\ held' = state
  /\ heldTheorists' = theorists
  /\ trace' = Append(trace, "select")
  /\ pc' = "Selected"
  /\ UNCHANGED <<trials, rows>>
  /\ UNCHANGED <<theorists, cycle, failure, parsed, snapshots, appendedIn>>

\* The sampler raises: state is not rebound.
SelectFails ==
  /\ StageAfter(pc) = "select"
  /\ Len(state.models) >= 3
  /\ mtcIdx' = ModelsToCompareIdx(state.models)
  /\ models_to_compare' = [i \in 1..3 |-> state.models[mtcIdx'[i]]]
  /\ held' = state
  /\ heldTheorists' = theorists
  /\ trace' = Append(trace, "select")
  /\ pc' = "Halted"
  /\ failure' = "selection"
  /\ existing' = Existing(state.experiment_data)
  /\ UNCHANGED <<trials, rows>>
  /\ UNCHANGED <<state, theorists, cycle, sampled, parsed, snapshots, appendedIn>>

\* state.models[-1] on a list of fewer than three models: IndexError
\* before the selection stage is called.
SelectIndexError ==
  /\ StageAfter(pc) = "select"
  /\ Len(state.models) < 3
  /\ pc' = "Halted"
  /\ failure' = "IndexError"
  /\ UNCHANGED <<existing, trials, rows>>
  /\ UNCHANGED <<state, theorists, models_to_compare, cycle, trace, held,
                 heldTheorists, sampled, parsed, snapshots, appendedIn, mtcIdx>>

\* range(num_cycles) is exhausted: the loop ends and reporting takes over.
Finish ==
  /\ pc \in {"Bootstrapped", "Selected"}
  /\ cycle = num_cycles
  /\ pc' = "Terminal"
  /\ UNCHANGED <<existing, trials, rows>>
  /\ UNCHANGED <<state, theorists, models_to_compare, cycle, failure, trace,
                 held, heldTheorists, sampled, parsed, snapshots, appendedIn, mtcIdx>>

Next ==
  \/ Bootstrap
  \/ Runner
  \/ RunnerFails
  \/ Fit
  \/ FitFails
  \/ Select
  \/ SelectFails
  \/ SelectIndexError
  \/ Finish

Spec == Init /\ [][Next]_vars

(* ------------------- the fit stage on any container ------------------- *)
\* Rows the parser can produce from the events of any admissible condition.
ObservableRows ==
  {TrialRow(e) :
     e \in {ev \in UNION {stimulus_sequence(
                            trial_sequence(c.dots_left, c.dots_right, num_trials)) :
                          c \in Range(allowed_conditions)} : KeptTrial(ev)}}

\* Containers a caller can hand to a stage: any pool, an unset, empty or
\* filled table, and a history of zero, one or two fit stages.
Containers ==
  [variables       : {variables},
   conditions      : {NoneDF} \cup
                     {DF(c) : c \in pick_conditions(allowed_conditions, <<>>, <<>>,
                                                    num_conditions_per_cycle)},
   experiment_data : {NoneDF} \cup
                     {DF(r) : r \in UNION {[1..n -> ObservableRows] : n \in 0..MaxEvents}},
   models          : {<<>>, FitOrder, FitOrder \o FitOrder}]

InitFit ==
  /\ state \in Containers
  /\ theorists = [t \in Range(FitOrder) |->
                    IF Len(state.models) = 0 THEN Unfitted
                    ELSE [X |-> <<CHOOSE r \in ObservableRows : TRUE>>, fit |-> 0]]
  /\ models_to_compare = <<>>
  /\ pc = "Executed"
  /\ cycle = 1
  /\ failure = "none"
  /\ trace = <<>>
  /\ held = state
  /\ heldTheorists = theorists
  /\ sampled = <<>>
  /\ parsed = <<>>
  /\ snapshots = [i \in 1..Len(state.models) |-> theorists[state.models[i]]]
  /\ appendedIn = [i \in 1..Len(state.models) |-> 0]
  /\ mtcIdx = <<>>
  /\ existing = <<>>
  /\ trials = <<>>
  /\ rows = <<>>

NextFit ==
  \/ Fit
  \/ FitFails

SpecFit == InitFit /\ [][NextFit]_vars

(* --------------------- the stages on any container ------------------- *)
\* A caller hands any container with a Condition Pool to the execution
\* stage, or any container to the fit stage, in the last iteration; the
\* selection stage follows the fit stage as in the loop.
\* The pools are the unset pool, every pool of at most one design-space row
\* and the full-size pool of the first rows of the design space.
StagePools ==
  {NoneDF}
  \cup {DF(c) : c \in pick_conditions(allowed_conditions, <<>>, <<>>, 1)}
  \cup {DF(SubSeq(allowed_conditions, 1, num_conditions_per_cycle))}

\* The tables are the unset table, the empty table and every table of one
\* row the parser can produce from the events of the first design-space row.
StageTables ==
  {NoneDF, DF(<<>>)}
  \cup {DF(<<TrialRow(e)>>) :
          e \in {ev \in stimulus_sequence(
                          trial_sequence(allowed_conditions[1].dots_left,
                                         allowed_conditions[1].dots_right,
                                         num_trials)) : KeptTrial(ev)}}

StageHistories == {<<>>, FitOrder, FitOrder \o FitOrder}

StageContainers ==
  [variables       : {variables},
   conditions      : StagePools,
   experiment_data : StageTables,
   models          : StageHistories]

InitStage ==
  /\ state \in StageContainers
  /\ pc \in {"Bootstrapped", "Executed"}
  /\ pc = "Bootstrapped" => ~state.conditions.isNone
  /\ cycle = IF pc = "Bootstrapped" THEN num_cycles - 1 ELSE num_cycles
  /\ theorists = [t \in Range(FitOrder) |->
                    IF Len(state.models) = 0 THEN Unfitted
                    ELSE [X |-> <<CHOOSE r \in ObservableRows : TRUE>>, fit |-> 0]]
  /\ models_to_compare = <<>>
  /\ failure = "none"
  /\ trace = <<>>
  /\ held = state
  /\ heldTheorists = theorists
  /\ sampled = <<>>
  /\ parsed = <<>>
  /\ snapshots = [i \in 1..Len(state.models) |-> theorists[state.models[i]]]
  /\ appendedIn = [i \in 1..Len(state.models) |-> 0]
  /\ mtcIdx = <<>>
  /\ existing = <<>>
  /\ trials = <<>>
  /\ rows = <<>>

NextStage ==
  \/ Runner
  \/ RunnerFails
  \/ Fit
  \/ FitFails
  \/ Select
  \/ SelectFails
  \/ SelectIndexError

SpecStage == InitStage /\ [][NextStage]_vars

(* ----------------------- the result parser alone ---------------------- *)
\* Events a jsPsych log can hold: those of the compiled experiment for any
\* admissible condition, and a timed-out text screen.
ParserEvents ==
  UNION {stimulus_sequence(trial_sequence(c.dots_left, c.dots_right, num_trials)) :
         c \in Range(allowed_conditions)}
  \cup {[trial_type |-> "html-keyboard-response", rt |-> "None",
         number_of_oobs |-> <<0, 0>>, key_press |-> "None"]}

InitParser ==
  /\ trials \in UNION {[1..n -> ParserEvents] : n \in 0..MaxTrials}
  /\ rows = <<>>
  /\ pc = "ParserInput"
  /\ state = NewState
  /\ theorists = [t \in Range(FitOrder) |-> Unfitted]
  /\ models_to_compare = <<>>
  /\ cycle = 0
  /\ failure = "none"
  /\ trace = <<>>
  /\ held = NewState
  /\ heldTheorists = [t \in Range(FitOrder) |-> Unfitted]
  /\ sampled = <<>>
  /\ parsed = <<>>
  /\ snapshots = <<>>
  /\ appendedIn = <<>>
  /\ mtcIdx = <<>>
  /\ existing = <<>>

\* _df = trial_list_to_experiment_data(_lst)
Parse ==
  /\ pc = "ParserInput"
  /\ rows' = trial_list_to_experiment_data(trials)
  /\ pc' = "Parsed"
  /\ UNCHANGED <<state, theorists, models_to_compare, cycle, failure, trace, held,
                 heldTheorists, sampled, parsed, snapshots, appendedIn, mtcIdx,
                 existing, trials>>

NextParser == Parse

SpecParser == InitParser /\ [][NextParser]_vars

(* ------------------------------ properties ---------------------------- *)
Count(seq, x) == Cardinality({i \in DOMAIN seq : seq[i] = x})

LastStage == IF Len(trace) = 0 THEN "none" ELSE trace[Len(trace)]

StageFailures == {"execution", "fit", "selection"}

\* Fit stages that returned.
FitsCompleted == Count(trace, "fit") - (IF failure = "fit" THEN 1 ELSE 0)

\* Fit stages that returned and had at least one observation to fit: the
\* fit of cycle c sees the rows parsed in cycles 1..c.
FitsOnData ==
  Cardinality({c \in 1..FitsCompleted : SumSeq(SubSeq(parsed, 1, c)) > 0})

LastThree(seq) == SubSeq(seq, Len(seq) - 2, Len(seq))

\* C1 as stated: after n fit stages the model history has exactly 3 * n
\* entries.
C1_Original == Len(state.models) = 3 * FitsCompleted

\* C1 amended: the model history has three entries per fit stage that ran
\* on a non-empty Observation Table; a fit stage on an empty table adds
\* none, and that happens only while the history is still empty. When the
\* history is not empty, its last three entries are the handles the most
\* recent fit stage returned, in the order Nuts, BMS, LR.
C1_Theorem ==
  /\ Len(state.models) = 3 * FitsOnData
  /\ FitsOnData \in {0, FitsCompleted}
  /\ FitsOnData > 0 =>
       /\ LastThree(state.models) = FitOrder
       /\ [i \in 1..3 |-> Family(LastThree(state.models)[i])] = <<"Nuts", "BMS", "LR">>
       /\ \A i \in 1..3 : LastThree(appendedIn)[i] = FitsCompleted

C1_Witness ==
  /\ pc = "Fitted"
  /\ FitsCompleted = 2
  /\ Len(state.models) = 6

\* C2: whenever the selection stage is called, models_to_compare holds
\* exactly the three entries the fit stage of the same cycle appended, one
\* per family.
C2_Theorem ==
  LastStage = "select" =>
    /\ Len(models_to_compare) = 3
    /\ \A i \in 1..3 : models_to_compare[i] = state.models[mtcIdx[i]]
    /\ {mtcIdx[i] : i \in 1..3} =
         {p \in 1..Len(state.models) : appendedIn[p] = cycle}
    /\ {mtcIdx[i] : i \in 1..3} =
         (Len(held.models) - 2)..Len(held.models)
    /\ Cardinality({Family(models_to_compare[i]) : i \in 1..3}) = 3

C2_Witness ==
  /\ pc = "Selected"
  /\ cycle = 2
  /\ Len(state.models) = 6
  /\ mtcIdx = <<6, 5, 4>>

\* C3: every step keeps the rows the Observation Table already has, in
\* place and in order, and never shortens or unsets the table.
C3_Theorem ==
  [][/\ Len(state'.experiment_data.rows) >= Len(state.experiment_data.rows)
     /\ SubSeq(state'.experiment_data.rows, 1, Len(state.experiment_data.rows))
          = state.experiment_data.rows
     /\ ~state.experiment_data.isNone => ~state'.experiment_data.isNone]_vars

C3_Witness ==
  /\ pc = "Executed"
  /\ cycle = 2
  /\ parsed[1] > 0
  /\ parsed[2] > 0
  /\ Len(state.experiment_data.rows) = parsed[1] + parsed[2]

\* C4: after the bootstrap stage and after every selection stage the
\* Condition Pool is exactly the rows the sampler returned in that call.
C4_Theorem ==
  pc \in {"Bootstrapped", "Selected"} =>
    /\ ~state.conditions.isNone
    /\ state.conditions.rows = sampled

C4_Witness ==
  /\ pc = "Selected"
  /\ cycle = 2
  /\ Len(held.conditions.rows) > 0
  /\ Len(sampled) > 0
  /\ state.conditions.rows # held.conditions.rows

\* C5: every entry of the model history still denotes the fit it denoted
\* when it was appended.
C5_Claim ==
  \A p \in 1..Len(state.models) : theorists[state.models[p]] = snapshots[p]

\* C6: when a stage raises, the container is the one handed to that stage
\* and every model in it is as it was when the stage was called.
C6_Claim ==
  failure \in StageFailures =>
    /\ state = held
    /\ \A p \in 1..Len(held.models) :
         theorists[held.models[p]] = heldTheorists[held.models[p]]

\* The order of stage calls of a full run.
RECURSIVE Cycles(_)
Cycles(n) == IF n = 0 THEN <<>> ELSE <<"execute", "fit", "select">> \o Cycles(n - 1)

ExpectedOrder == <<"bootstrap">> \o Cycles(num_cycles)

IsPrefix(s, t) == Len(s) <= Len(t) /\ SubSeq(t, 1, Len(s)) = s

\* C7: the stages called so far are an initial part of bootstrap,
\* (execute, fit, select) repeated; a run that reaches Terminal has called
\* all of them; and each stage is handed the container the stage before it
\* returned.
C7_Theorem ==
  /\ [](/\ IsPrefix(trace, ExpectedOrder)
        /\ pc = "Terminal" => trace = ExpectedOrder)
  /\ [][trace' # trace => (held' = state /\ Len(trace') = Len(trace) + 1)]_vars

C7_Witness ==
  /\ pc = "Terminal"
  /\ trace = ExpectedOrder

\* C8: a loop that has stopped without any stage raising is at Terminal
\* and has called each per-cycle stage num_cycles times.
C8_Claim ==
  (pc \in {"Halted", "Terminal"} /\ failure \notin StageFailures) =>
    /\ pc = "Terminal"
    /\ \A s \in {"execute", "fit", "select"} : Count(trace, s) = num_cycles

\* C9: the fit stage on an unset or empty Observation Table returns, and
\* returns a container equal to its input in every field; the theorist
\* objects are not touched.
C9_Theorem ==
  (LastStage = "fit" /\ IsEmptyDF(held.experiment_data)) =>
    /\ failure # "fit"
    /\ state = held
    /\ theorists = heldTheorists

C9_Witness ==
  /\ pc = "Fitted"
  /\ held.experiment_data.isNone
  /\ Len(held.models) = 3
  /\ state.models = FitOrder

\* C10: whatever number of results the execution returns, the loop raises
\* nothing of its own (only a raising stage stops it), and at Terminal the
\* Observation Table has as many rows as were parsed over all cycles.
C10_Claim ==
  /\ failure \in StageFailures \cup {"none"}
  /\ pc = "Terminal" => Len(state.experiment_data.rows) = SumSeq(parsed)

IvRows(rs) == {IvRow(rs[i]) : i \in DOMAIN rs}

NoDuplicates(seq) == \A i, j \in DOMAIN seq : i # j => seq[i] # seq[j]

\* C11 as stated: after a selection stage no row of the Condition Pool is a
\* combination already in the Observation Table, and the pool has
\* num_samples rows unless the sampler returned fewer.
C11_Original ==
  pc = "Selected" =>
    /\ IvRows(state.conditions.rows) \cap IvRows(state.experiment_data.rows) = {}
    /\ Len(state.conditions.rows) \in {num_conditions_per_cycle, Len(sampled)}

\* C11 amended: the selection stage hands the sampler the observed
\* combinations, each once, in order of first occurrence, together with the
\* whole design space; the pool it produces is the sampler's answer, at
\* most num_samples distinct design-space rows, which may repeat observed
\* combinations.
C11_Theorem ==
  LastStage = "select" =>
    /\ NoDuplicates(existing)
    /\ Range(existing) = IvRows(held.experiment_data.rows)
    /\ \A i, j \in DOMAIN existing :
         i < j => \E m \in DOMAIN held.experiment_data.rows :
                    /\ IvRow(held.experiment_data.rows[m]) = existing[i]
                    /\ \A n \in 1..m : IvRow(held.experiment_data.rows[n]) # existing[j]
    /\ pc = "Selected" =>
         /\ state.conditions.rows = sampled
         /\ Len(state.conditions.rows) <= num_conditions_per_cycle
         /\ NoDuplicates(state.conditions.rows)
         /\ Range(state.conditions.rows) \subseteq Range(allowed_conditions)

C11_Witness ==
  /\ pc = "Selected"
  /\ cycle = 2
  /\ Len(existing) < Len(state.experiment_data.rows)
  /\ IvRows(state.conditions.rows) \cap Range(existing) # {}

\* C12: a stage changes only the field its delta names: execution only
\* experiment_data, fit only models, bootstrap and selection only
\* conditions; no step changes the variable declarations, and a step that
\* calls no stage changes nothing of the container.
C12_Theorem ==
  [][/\ DOMAIN state' = DOMAIN state
     /\ state'.variables = state.variables
     /\ trace' = trace => state' = state
     /\ trace' # trace =>
          LET stage == trace'[Len(trace')]
          IN  /\ stage = "execute" =>
                   /\ state'.conditions = state.conditions
                   /\ state'.models = state.models
              /\ stage = "fit" =>
                   /\ state'.conditions = state.conditions
                   /\ state'.experiment_data = state.experiment_data
              /\ stage \in {"bootstrap", "select"} =>
                   /\ state'.experiment_data = state.experiment_data
                   /\ state'.models = state.models]_vars

C12_Witness ==
  /\ pc = "Executed"
  /\ cycle = 2
  /\ state.experiment_data # held.experiment_data
  /\ Len(state.conditions.rows) > 0
  /\ state.conditions = held.conditions
  /\ state.models = held.models
  /\ Len(state.models) = 3

\* The partial update a stage made, read off the containers before and
\* after it: the rows, or the models, it appended.
AppendedRows(before, after) ==
  SubSeq(after.experiment_data.rows, Len(before.experiment_data.rows) + 1,
         Len(after.experiment_data.rows))

AppendedModels(before, after) ==
  SubSeq(after.models, Len(before.models) + 1, Len(after.models))

\* A logged trial that parses to the given row.
TrialOf(row) ==
  [trial_type |-> "rok", rt |-> "rt",
   number_of_oobs |-> <<row.dots_left, row.dots_right>>,
   key_press |-> IF (row.dots_left = row.dots_right) = (row.accuracy = 1)
                 THEN "y" ELSE "n"]

\* An execution response that parses to the given rows.
ResponseOf(rs) == <<[i \in 1..Len(rs) |-> TrialOf(rs[i])]>>

\* Containers that differ from c only in fields the execution stage does
\* not take (experiment_data, models), and only in fields the fit and
\* selection stages do not take (conditions, models).
RunTwins(c) ==
  {[c EXCEPT !.experiment_data = t, !.models = m] :
     t \in StageTables, m \in StageHistories}

FitTwins(c) ==
  {[c EXCEPT !.conditions = p, !.models = m] :
     p \in StagePools, m \in StageHistories}

\* C13: a container that differs from the one a stage was called on only
\* in fields the stage does not take gets the same partial update from the
\* same collaborator response: the execution stage takes conditions, the
\* fit stage experiment_data and variables, the selection stage
\* experiment_data and variables (and the sampler's answer).
C13_Theorem ==
  /\ (pc = "Executed" /\ LastStage = "execute") =>
       LET update   == AppendedRows(held, state)
           response == ResponseOf(update)
       IN  /\ state = runner_on_state(held, response)
           /\ \A twin \in RunTwins(held) :
                AppendedRows(twin, runner_on_state(twin, response)) = update
  /\ (pc = "Fitted" /\ LastStage = "fit") =>
       \A twin \in FitTwins(held) :
         AppendedModels(twin, theorist_on_state(twin)) = AppendedModels(held, state)
  /\ (pc = "Selected" /\ LastStage = "select") =>
       \A twin \in FitTwins(held) :
         experimentalist_on_state(twin, sampled).conditions = state.conditions

\* The fit stage ran on a container with a history and a pool; a twin
\* without a pool and without a history exists.
C13_Witness ==
  /\ pc = "Fitted"
  /\ LastStage = "fit"
  /\ Len(held.models) = 3
  /\ Len(state.models) = 6
  /\ Len(held.conditions.rows) > 0
  /\ \E twin \in FitTwins(held) :
       twin.conditions.isNone /\ twin.models = <<>>

\* Position of a value in the allowed-value sequence.
ValueIndex(v) == CHOOSE i \in DOMAIN allowed_values : allowed_values[i] = v

\* C14: the Design Space Table holds every pair of allowed values with
\* different members and no other row, each once, ordered by dots_left and
\* then dots_right as declared: for the values 1, 2, 3 it is (1,2), (1,3),
\* (2,1), (2,3), (3,1), (3,2), and its rows over the values 1, 2 alone are
\* (1,2), (2,1). The loop never changes it: every Condition Pool is drawn
\* from these rows.
C14_Theorem ==
  /\ \A a, b \in Range(allowed_values) :
       (a # b) <=> [dots_left |-> a, dots_right |-> b] \in Range(allowed_conditions)
  /\ \A i \in DOMAIN allowed_conditions :
       /\ allowed_conditions[i].dots_left \in Range(allowed_values)
       /\ allowed_conditions[i].dots_right \in Range(allowed_values)
  /\ \A i, j \in DOMAIN allowed_conditions :
       i < j =>
         \/ ValueIndex(allowed_conditions[i].dots_left)
              < ValueIndex(allowed_conditions[j].dots_left)
         \/ /\ allowed_conditions[i].dots_left = allowed_conditions[j].dots_left
            /\ ValueIndex(allowed_conditions[i].dots_right)
                 < ValueIndex(allowed_conditions[j].dots_right)
  /\ allowed_conditions = <<[dots_left |-> 1, dots_right |-> 2],
                            [dots_left |-> 1, dots_right |-> 3],
                            [dots_left |-> 2, dots_right |-> 1],
                            [dots_left |-> 2, dots_right |-> 3],
                            [dots_left |-> 3, dots_right |-> 1],
                            [dots_left |-> 3, dots_right |-> 2]>>
  /\ LET OverOneTwo(row) == row.dots_left \in {1, 2} /\ row.dots_right \in {1, 2}
     IN  SelectSeq(allowed_conditions, OverOneTwo)
           = <<[dots_left |-> 1, dots_right |-> 2],
               [dots_left |-> 2, dots_right |-> 1]>>
  /\ Range(state.conditions.rows) \subseteq Range(allowed_conditions)

C14_Witness ==
  /\ pc = "Selected"
  /\ cycle = num_cycles
  /\ state.conditions.rows = <<[dots_left |-> 2, dots_right |-> 1],
                               [dots_left |-> 1, dots_right |-> 2]>>

\* An event of the measured trial type with a recorded response.
IsMeasured(e) == e.trial_type = "rok" /\ e.rt \notin {"None", "absent"}

MeasuredPositions == {i \in DOMAIN trials : IsMeasured(trials[i])}

\* Position in trials of the k-th measured event.
KthMeasured(k) ==
  CHOOSE i \in MeasuredPositions :
    Cardinality({j \in MeasuredPositions : j <= i}) = k

\* C15: the parser returns one row per event that is of type 'rok' and has
\* a reaction time, in input order, carrying that event's two dot counts,
\* and no row for any other event.
C15_Theorem ==
  pc = "Parsed" =>
    /\ Len(rows) = Cardinality(MeasuredPositions)
    /\ \A k \in DOMAIN rows :
         /\ rows[k].dots_left = trials[KthMeasured(k)].number_of_oobs[1]
         /\ rows[k].dots_right = trials[KthMeasured(k)].number_of_oobs[2]

C15_Witness ==
  /\ pc = "Parsed"
  /\ Len(trials) = 2
  /\ trials[1].trial_type = "rok"
  /\ trials[1].rt = "None"
  /\ IsMeasured(trials[2])
  /\ Len(rows) = 1

\* C16 as stated: every row the execution stage appends has the
\* combination of a row of the Condition Pool it executed, hence of a row
\* of the Design Space Table, with dots_left # dots_right.
C16_Original ==
  (pc = "Executed" /\ LastStage = "execute") =>
    \A i \in DOMAIN AppendedRows(held, state) :
      LET row == AppendedRows(held, state)[i]
      IN  /\ IvRow(row) \in Range(held.conditions.rows)
          /\ IvRow(row) \in Range(allowed_conditions)
          /\ row.dots_left # row.dots_right

\* C16 amended: every row the execution stage appends takes dots_left and
\* dots_right, independently, from the two values of one row of the
\* Condition Pool it executed (the full crossing of trial_sequence), so it
\* may have equal dots or the values swapped and need not be a pool row or
\* a design-space row.
C16_Theorem ==
  (pc = "Executed" /\ LastStage = "execute") =>
    \A i \in DOMAIN AppendedRows(held, state) :
      LET row == AppendedRows(held, state)[i]
      IN  \E c \in Range(held.conditions.rows) :
            /\ row.dots_left \in {c.dots_left, c.dots_right}
            /\ row.dots_right \in {c.dots_left, c.dots_right}

\* The executed pool has two rows with different pairs of values, some
\* design-space row outside the pool mixes their values, and the appended
\* row has equal dots taken from the second pool row alone.
C16_Witness ==
  /\ pc = "Executed"
  /\ LastStage = "execute"
  /\ held.conditions.rows = <<[dots_left |-> 1, dots_right |-> 2],
                              [dots_left |-> 1, dots_right |-> 3]>>
  /\ [dots_left |-> 2, dots_right |-> 3] \in Range(allowed_conditions)
  /\ Len(AppendedRows(held, state)) = 1
  /\ IvRow(AppendedRows(held, state)[1]) = [dots_left |-> 3, dots_right |-> 3]
  /\ IvRow(AppendedRows(held, state)[1]) \notin Range(allowed_conditions)

\* Declared value range of the dependent variable accuracy.
AccuracyRange == 0..1

\* C17: for every kept trial the parser records accuracy 1 exactly when the
\* dots are equal and the key is 'y', or the dots differ and the key is
\* 'n', and 0 otherwise; every accuracy it returns, and every accuracy in
\* the Observation Table, is 0 or 1 and so within the declared range.
C17_Theorem ==
  /\ pc = "Parsed" =>
       \A k \in 1..Min(Len(rows), Cardinality(MeasuredPositions)) :
         LET trial == trials[KthMeasured(k)]
             l     == trial.number_of_oobs[1]
             r     == trial.number_of_oobs[2]
             right == \/ (l = r /\ trial.key_press = "y")
                      \/ (l # r /\ trial.key_press = "n")
         IN  /\ rows[k].accuracy \in {0, 1}
             /\ rows[k].accuracy \in AccuracyRange
             /\ (rows[k].accuracy = 1) <=> right
  /\ \A i \in DOMAIN state.experiment_data.rows :
       state.experiment_data.rows[i].accuracy \in {0, 1}

\* The parser labelled an equal-dots 'y' trial 1 and an unequal-dots 'y'
\* trial 0.
C17_Witness ==
  /\ pc = "Parsed"
  /\ Len(rows) = 2
  /\ trials[1].number_of_oobs = <<1, 1>>
  /\ trials[1].key_press = "y"
  /\ rows[1].accuracy = 1
  /\ trials[2].number_of_oobs = <<1, 2>>
  /\ trials[2].key_press = "y"
  /\ rows[2].accuracy = 0

====
